---- MODULE Spec2Model ----
(***************************************************************************)
(* A model of the YouTube music organizer: the cache-aware search          *)
(* (youtube_api.py, search_music), the liked-videos page loop              *)
(* (get_liked_videos), the keyword classifier and the year extraction      *)
(* (music_categorizer.py) and the filter step of the reporting pipeline.   *)
(* Strings are modelled as sequences of one-character strings, so that     *)
(* replace, substring search and the regular expression act on characters. *)
(* Time is counted in hours, the unit of cache_duration.                   *)
(***************************************************************************)
EXTENDS Integers, Sequences, FiniteSets, TLC

VARIABLES
    now,        \* the wall clock, datetime.now(), in hours
    cache,      \* the files under CACHE_DIR: cache key -> file content
    written,    \* history: cache key -> the payload of the last successful cache write
    call,       \* the call of the retrieval layer in progress or last finished
    song,       \* the text and tags under classification, and the labels found
    frame       \* the DataFrame of the reporting step and what the step gave

vars == <<now, cache, written, call, song, frame>>

----------------------------------------------------------------------------
(* Bounds of the model *)

\* the clock stops at MaxTime
MaxTime == 2
\* the largest max_results passed to search_music / get_playlist_items
MaxItems == 2
\* the largest max_results passed to get_liked_videos
MaxRequested == 102
\* the longest liked-videos playlist
MaxSource == 102
\* the longest liked-videos playlist when liked videos and searches alternate
MaxSmallSource == 3
\* the most passes of the page loop a call on a small playlist is followed for
MaxPages == 5
\* the most words in a text, and the most tags of a song
MaxWords == 2
MaxTags == 2
\* the most pieces in a text of the year extraction
MaxPieces == 3
\* the most rows of a frame
MaxRows == 3

----------------------------------------------------------------------------
(* search_music: the cache key *)

Min(a, b) == IF a < b THEN a ELSE b

\* str.replace(old, new) for one-character old and new
Replace(s, old, new) == [i \in 1..Len(s) |-> IF s[i] = old THEN new ELSE s[i]]

CachePrefix == <<"m","u","s","i","c","_","s","e","a","r","c","h","_">>
CacheSuffix == <<".","p","k","l">>

\* f"music_search_{query.replace(' ', '_')}.pkl"
cache_key(query) == CachePrefix \o Replace(query, " ", "_") \o CacheSuffix

\* the queries searched for: two that differ in a space versus an underscore, and a third
Queries == { <<"a"," ","b">>, <<"a","_","b">>, <<"c">> }
CacheKeys == { cache_key(q) : q \in Queries }
Durations == 0..MaxTime

----------------------------------------------------------------------------
(* search_music: the cache file *)

\* os.path.exists(cache_path) is false
Absent == [kind |-> "absent"]
\* a file that pickle.load cannot read: truncated, or not a pickle
Corrupt == [kind |-> "corrupt"]
\* pickle.dump({'timestamp': ..., 'results': ...})
Entry(t, results) == [kind |-> "entry", timestamp |-> t, results |-> results]

\* a non-strict comparison: an entry of age cache_duration still counts as fresh
NotExpiredInclusive(timestamp, t, cache_duration) == timestamp >= t - cache_duration

\* cached_data['timestamp'] > datetime.now() - timedelta(hours=cache_duration)
NotExpired(timestamp, t, cache_duration) == timestamp > t - cache_duration

----------------------------------------------------------------------------
(* The retriever: what the YouTube client may answer *)

\* get_video_details: the details of a video, or {} when videos().list raises HttpError
get_video_details(video_id, httpError) ==
    IF httpError THEN [raised |-> FALSE, details |-> "none"]
    ELSE [raised |-> FALSE, details |-> "full"]

\* the places whose videos().list call raises HttpError: none, or the first one
DetailFailures(n) == { {}, {1} \cap (1..n) }

\* the item search().list gives at place i for a query; maxResults is honoured
SearchItems(query, n) == [i \in 1..n |-> <<query, i>>]

\* the loop over search_response['items']: one music_item per item, in order
MusicItems(ids, failing) ==
    [i \in 1..Len(ids) |->
        [id |-> ids[i], details |-> get_video_details(ids[i], i \in failing).details]]

---------------------------------------------------------------------------------------------------------------------------------------------------
(* search_music *)

\* before the first call
NoCall == [op |-> "none", state |-> "DONE", outcome |-> "none", error |-> "none",
           result |-> <<>>, http |-> {}]

\* the program is single-threaded: a call starts when no call is in progress
Busy == call.state # "DONE"

\* http: the retriever calls that raised HttpError during the call
Returned(query, max_results, from, result, http) ==
    [op |-> "search_music", state |-> "DONE", query |-> query,
     max_results |-> max_results, outcome |-> "returned", error |-> "none", from |-> from, result |-> result,
     http |-> http]

Raised(query, max_results, from, error, http) ==
    [op |-> "search_music", state |-> "DONE", query |-> query,
     max_results |-> max_results, outcome |-> "raised", error |-> error, from |-> from, result |-> <<>>,
     http |-> http]

DetailHttp(failing) == IF failing = {} THEN {} ELSE {"detail"}

\* lines 162-164: except HttpError: return []
SearchFailed(query, max_results) ==
    Returned(query, max_results, "retriever", <<>>, {"search"})

\* lines 108-111: the file exists, loads, and its timestamp is not expired
CacheHit(entry, cache_duration) ==
    /\ entry.kind = "entry"
    /\ NotExpired(entry.timestamp, now, cache_duration)

\* lines 153-158: the write of the cache file after a fetch
WriteCache(key, query, max_results, results, http) ==
    \/ /\ cache' = [cache EXCEPT ![key] = Entry(now, results)]
       /\ written' = [written EXCEPT ![key] = results]
       /\ call' = Returned(query, max_results, "retriever", results, http)
    \* open(cache_path, 'wb') raises OSError: the file is as it was
    \/ /\ cache' = cache
       /\ written' = written
       /\ call' = Raised(query, max_results, "retriever", "OSError", http)
    \* pickle.dump raises after open truncated the file
    \/ /\ cache' = [cache EXCEPT ![key] = Corrupt]
       /\ written' = written
       /\ call' = Raised(query, max_results, "retriever", "OSError", http)

search_music(query, max_results, cache_duration) ==
    LET key == cache_key(query)
        entry == cache[key]
    IN /\ ~Busy
       /\ UNCHANGED <<now, song, frame>>
       /\ IF entry.kind = "corrupt"
          THEN \* line 110: pickle.load raises, outside the try block
               /\ call' = Raised(query, max_results, "none", "UnpicklingError", {})
               /\ UNCHANGED <<cache, written>>
          ELSE IF CacheHit(entry, cache_duration)
          THEN \* line 113
               /\ call' = Returned(query, max_results, "cache", entry.results, {})
               /\ UNCHANGED <<cache, written>>
          ELSE \* lines 115-125, 162-164: search().list raises HttpError
               \/ /\ call' = SearchFailed(query, max_results)
                  /\ UNCHANGED <<cache, written>>
               \* lines 127-160: the items, their detail calls, the cache write
               \/ \E n \in 0..max_results :
                  \E failing \in DetailFailures(n) :
                      WriteCache(key, query, max_results,
                                 MusicItems(SearchItems(query, n), failing),
                                 DetailHttp(failing))

\* get_playlist_items, lines 218-241: one playlistItems().list call
get_playlist_items(max_results) ==
    /\ ~Busy
    /\ \/ \* except HttpError: return []
          call' = [op |-> "get_playlist_items", state |-> "DONE",
                   max_results |-> max_results, outcome |-> "returned",
                   error |-> "none", result |-> <<>>, http |-> {"playlist"}]
       \/ \E n \in 0..max_results :
            call' = [op |-> "get_playlist_items", state |-> "DONE",
                     max_results |-> max_results, outcome |-> "returned",
                     error |-> "none", result |-> [i \in 1..n |-> [id |-> i]],
                     http |-> {}]
    /\ UNCHANGED <<now, cache, written, song, frame>>

GetPlaylistItems == \E max_results \in 0..MaxItems : get_playlist_items(max_results)

SearchMusic ==
    \E query \in Queries, max_results \in 0..MaxItems, cache_duration \in Durations :
        search_music(query, max_results, cache_duration)

---------------------------------------------------------------------------------------------------------------------------------------------------
(* get_liked_videos: the liked-videos playlist and the page loop *)

\* maxResults=min(50, ...), line 281
PageLimit == 50

\* The playlist is n items; the kind of the item at place i repeats a pattern:
\* "ok" (a video whose details load), "nodetails" (videos().list raises HttpError
\* for it), "deleted" (the item has no contentDetails.videoId).
Patterns == << <<"ok">>, <<"deleted">>, <<"ok", "deleted">>,
               <<"deleted", "nodetails", "ok">> >>
Kind(source, i) ==
    Patterns[source.pattern][((i - 1) % Len(Patterns[source.pattern])) + 1]
Sources(maxLen) == [n : 0..maxLen, pattern : 1..Len(Patterns)]

\* playlistItems().list(maxResults=size, pageToken=token): the places of the page.
\* The source honours the page size. A token is <<place before the next page>>,
\* None is <<>>.
None == <<>>
PageStart(token) == IF token = None THEN 0 ELSE token[1]
PagePlaces(source, token, size) ==
    [j \in 1..(Min(PageStart(token) + size, source.n) - PageStart(token)) |->
        PageStart(token) + j]
\* a source that hands back the token of the page it was asked for
StuckPageToken(source, token, size) ==
    IF size < source.n THEN <<PageStart(token)>> ELSE None

\* playlist_items_response.get('nextPageToken')
NextPageToken(source, token, size) ==
    IF PageStart(token) + size < source.n THEN <<PageStart(token) + size>> ELSE None

\* a page is always requested with the page limit
page_size_unbounded(max_results, count) == PageLimit

\* line 281: min(50, max_results - len(videos))
page_size(max_results, count) == Min(PageLimit, max_results - count)

\* the loop without the test of line 287: an item without videoId is kept
ProcessItemsKeepDeleted(source, places, k) ==
    [j \in 1..(Len(places) - k + 1) |->
        [id |-> places[k + j - 1],
         details |-> get_video_details(places[k + j - 1],
                         Kind(source, places[k + j - 1]) # "ok").details]]

\* lines 286-310: the items of a page that have a videoId, each with its details
RECURSIVE ProcessItems(_, _, _)
ProcessItems(source, places, k) ==
    IF k > Len(places) THEN <<>>
    ELSE IF Kind(source, places[k]) = "deleted"
         THEN ProcessItems(source, places, k + 1)
         ELSE << [id |-> places[k],
                  details |-> get_video_details(places[k],
                                  Kind(source, places[k]) = "nodetails").details] >>
              \o ProcessItems(source, places, k + 1)

DetailErrors(source, places) ==
    IF \E k \in 1..Len(places) : Kind(source, places[k]) = "nodetails"
    THEN {"detail"} ELSE {}

\* get_liked_videos(max_results) is called on a client built with use_oauth
LikedRequest(max_results, source, use_oauth) ==
    [op |-> "get_liked_videos", state |-> "REQUESTED", max_results |-> max_results,
     source |-> source, use_oauth |-> use_oauth, videos |-> <<>>,
     next_page_token |-> None, page_size |-> 0, pages |-> 0,
     outcome |-> "none", error |-> "none", how |-> "running", result |-> <<>>,
     http |-> {}]

\* return: the call is over
LikedDone(c, how, result, http) ==
    [c EXCEPT !.state = "DONE", !.outcome = "returned", !.how = how,
              !.result = result, !.http = http]

\* lines 253-276: the call up to the first test of the loop condition
get_liked_videos ==
    /\ call.op = "get_liked_videos"
    /\ call.state = "REQUESTED"
    /\ IF ~call.use_oauth
       THEN call' = LikedDone(call, "oauth_required", <<>>, {})
       ELSE \* channels().list raises HttpError
            \/ call' = LikedDone(call, "http_error", <<>>, {"channels"})
            \* channels_response['items'] is empty
            \/ call' = LikedDone(call, "no_channel", <<>>, {})
            \* while len(videos) < max_results
            \/ call' = IF 0 < call.max_results
                       THEN [call EXCEPT !.state = "FETCHING"]
                       ELSE LikedDone(call, "completed", <<>>, {})
    /\ UNCHANGED <<now, cache, written, song, frame>>

\* lines 276-316: one pass of the loop
LikedPage ==
    /\ call.op = "get_liked_videos"
    /\ call.state = "FETCHING"
    /\ LET size == page_size(call.max_results, Len(call.videos))
           places == PagePlaces(call.source, call.next_page_token, size)
           token == NextPageToken(call.source, call.next_page_token, size)
           videos == call.videos \o ProcessItems(call.source, places, 1)
           http == call.http \cup DetailErrors(call.source, places)
           c == [call EXCEPT !.page_size = size, !.pages = @ + 1]
       IN \* playlistItems().list raises HttpError: lines 320-322
          \/ call' = LikedDone(c, "http_error", <<>>, call.http \cup {"page"})
          \/ call' = IF token = None \/ Len(videos) >= call.max_results
                     THEN LikedDone([c EXCEPT !.videos = videos,
                                              !.next_page_token = token],
                                    "completed", videos, http)
                     ELSE [c EXCEPT !.videos = videos, !.next_page_token = token,
                                    !.http = http]
    /\ UNCHANGED <<now, cache, written, song, frame>>

----------------------------------------------------------------------------
(* The classifier: the keyword tables, in insertion order *)

\* self.genre_keywords, lines 11-22
genre_keywords ==
    <<
      [name |-> "pop", keywords |-> <<
            <<"p","o","p">>,
            <<"d","a","n","c","e"," ","p","o","p">>,
            <<"e","l","e","c","t","r","o","p","o","p">> >>],
      [name |-> "rock", keywords |-> <<
            <<"r","o","c","k">>,
            <<"a","l","t","e","r","n","a","t","i","v","e">>,
            <<"i","n","d","i","e">>,
            <<"p","u","n","k">>,
            <<"m","e","t","a","l">>,
            <<"g","r","u","n","g","e">> >>],
      [name |-> "hip hop", keywords |-> <<
            <<"h","i","p"," ","h","o","p">>,
            <<"r","a","p">>,
            <<"t","r","a","p">>,
            <<"d","r","i","l","l">>,
            <<"r","&","b">>,
            <<"r","n","b">> >>],
      [name |-> "electronic", keywords |-> <<
            <<"e","d","m">>,
            <<"e","l","e","c","t","r","o","n","i","c">>,
            <<"h","o","u","s","e">>,
            <<"t","e","c","h","n","o">>,
            <<"d","u","b","s","t","e","p">>,
            <<"t","r","a","n","c","e">>,
            <<"d","r","u","m"," ","a","n","d"," ","b","a","s","s">> >>],
      [name |-> "country", keywords |-> <<
            <<"c","o","u","n","t","r","y">>,
            <<"f","o","l","k">>,
            <<"b","l","u","e","g","r","a","s","s">>,
            <<"a","m","e","r","i","c","a","n","a">> >>],
      [name |-> "jazz", keywords |-> <<
            <<"j","a","z","z">>,
            <<"b","l","u","e","s">>,
            <<"s","o","u","l">>,
            <<"f","u","n","k">> >>],
      [name |-> "classical", keywords |-> <<
            <<"c","l","a","s","s","i","c","a","l">>,
            <<"o","r","c","h","e","s","t","r","a">>,
            <<"p","i","a","n","o">>,
            <<"s","y","m","p","h","o","n","y">>,
            <<"c","o","n","c","e","r","t","o">> >>],
      [name |-> "latin", keywords |-> <<
            <<"l","a","t","i","n">>,
            <<"r","e","g","g","a","e","t","o","n">>,
            <<"s","a","l","s","a">>,
            <<"b","a","c","h","a","t","a">>,
            <<"c","u","m","b","i","a">> >>],
      [name |-> "k-pop", keywords |-> <<
            <<"k","-","p","o","p">>,
            <<"k","p","o","p">>,
            <<"k"," ","p","o","p">> >>],
      [name |-> "j-pop", keywords |-> <<
            <<"j","-","p","o","p">>,
            <<"j","p","o","p">>,
            <<"j"," ","p","o","p">> >>]
    >>

\* self.mood_keywords, lines 25-31
mood_keywords ==
    <<
      [name |-> "happy", keywords |-> <<
            <<"h","a","p","p","y">>,
            <<"u","p","b","e","a","t">>,
            <<"u","p","l","i","f","t","i","n","g">>,
            <<"c","h","e","e","r","f","u","l">>,
            <<"f","u","n">>,
            <<"f","e","e","l"," ","g","o","o","d">>,
            <<"p","a","r","t","y">> >>],
      [name |-> "sad", keywords |-> <<
            <<"s","a","d">>,
            <<"m","e","l","a","n","c","h","o","l","y">>,
            <<"h","e","a","r","t","b","r","e","a","k">>,
            <<"e","m","o","t","i","o","n","a","l">>,
            <<"t","e","a","r","f","u","l">>,
            <<"b","a","l","l","a","d">> >>],
      [name |-> "relaxing", keywords |-> <<
            <<"c","h","i","l","l">>,
            <<"r","e","l","a","x">>,
            <<"c","a","l","m">>,
            <<"p","e","a","c","e","f","u","l">>,
            <<"a","m","b","i","e","n","t">>,
            <<"s","l","e","e","p">>,
            <<"s","t","u","d","y">> >>],
      [name |-> "energetic", keywords |-> <<
            <<"e","n","e","r","g","e","t","i","c">>,
            <<"w","o","r","k","o","u","t">>,
            <<"f","i","t","n","e","s","s">>,
            <<"g","y","m">>,
            <<"h","y","p","e">>,
            <<"e","n","e","r","g","y">>,
            <<"p","u","m","p">> >>],
      [name |-> "romantic", keywords |-> <<
            <<"l","o","v","e">>,
            <<"r","o","m","a","n","t","i","c">>,
            <<"r","o","m","a","n","c","e">>,
            <<"w","e","d","d","i","n","g">>,
            <<"v","a","l","e","n","t","i","n","e">> >>]
    >>

\* the words of the texts: "popular" holds the keyword pop, "sadness" holds sad,
\* "glove" holds love, "zzz" holds no keyword
Words ==
    { <<"p","o","p","u","l","a","r">>,
      <<"r","o","c","k">>,
      <<"k","-","p","o","p">>,
      <<"s","a","d","n","e","s","s">>,
      <<"g","l","o","v","e">>,
      <<"z","z","z">> }
\* the tags: keywords of late categories, and "po", a part of a keyword
TagWords ==
    { <<"k","-","p","o","p">>,
      <<"c","a","l","m">>,
      <<"p","o">> }

\* ' '.join(words)
RECURSIVE Join(_)
Join(words) ==
    IF Len(words) = 0 THEN <<>>
    ELSE IF Len(words) = 1 THEN words[1]
    ELSE words[1] \o <<" ">> \o Join(Tail(words))

SeqsUpTo(S, n) == UNION { [1..k -> S] : k \in 0..n }

Texts == { Join(ws) : ws \in SeqsUpTo(Words, MaxWords) }
TagLists == SeqsUpTo(TagWords, MaxTags)

\* keyword in text: the first place at or after i where keyword occurs, 0 if none
RECURSIVE Find(_, _, _)
Find(keyword, text, i) ==
    IF i + Len(keyword) - 1 > Len(text) THEN 0
    ELSE IF SubSeq(text, i, i + Len(keyword) - 1) = keyword THEN i
    ELSE Find(keyword, text, i + 1)

\* keyword in tags: an element of the list equal to keyword
RECURSIVE InList(_, _, _)
InList(keyword, tags, j) ==
    IF j > Len(tags) THEN FALSE
    ELSE IF tags[j] = keyword THEN TRUE
    ELSE InList(keyword, tags, j + 1)

\* the keyword is looked for in the text alone
KeywordInTextOnly(keyword, text, tags) == Find(keyword, text, 1) # 0

\* lines 93, 111: keyword in text or keyword in tags
KeywordMatches(keyword, text, tags) ==
    Find(keyword, text, 1) # 0 \/ InList(keyword, tags, 1)

\* the two loops of _detect_genre and _detect_mood: categories in table order,
\* the keywords of each in order, the first hit returns
RECURSIVE Detect(_, _, _, _, _, _)
Detect(table, default, text, tags, c, k) ==
    IF c > Len(table) THEN default
    ELSE IF k > Len(table[c].keywords) THEN Detect(table, default, text, tags, c + 1, 1)
    ELSE IF KeywordMatches(table[c].keywords[k], text, tags) THEN table[c].name
    ELSE Detect(table, default, text, tags, c, k + 1)

\* lines 80-96
_detect_genre(text, tags) == Detect(genre_keywords, "unknown", text, tags, 1, 1)

\* lines 98-114
_detect_mood(text, tags) == Detect(mood_keywords, "other", text, tags, 1, 1)

\* _detect_genre(text, tags) and _detect_mood(text, tags) on the song at hand
DetectLabels ==
    /\ song.state = "INPUT"
    /\ song' = [song EXCEPT !.state = "LABELLED",
                            !.genre = _detect_genre(song.text, song.tags),
                            !.mood = _detect_mood(song.text, song.tags)]
    /\ UNCHANGED <<now, cache, written, call, frame>>

----------------------------------------------------------------------------
(* The year extraction *)

Digits == {"0", "1", "2", "3", "4", "5", "6", "7", "8", "9"}
Letters == {"a", "b", "c", "d", "e", "f", "g", "h", "i", "j", "k", "l", "m", "n",
            "o", "p", "q", "r", "s", "t", "u", "v", "w", "x", "y", "z"}
\* \w
IsWordChar(c) == c \in Digits \cup Letters \cup {"_"}

\* \b after the first i characters: a word character on one side only
WordBoundary(text, i) ==
    (i >= 1 /\ IsWordChar(text[i])) # (i < Len(text) /\ IsWordChar(text[i + 1]))

\* (19[0-9]{2}|20[0-2][0-9]) at place p
YearDigitsAt(text, p) ==
    /\ p + 3 <= Len(text)
    /\ \/ /\ text[p] = "1" /\ text[p + 1] = "9"
          /\ text[p + 2] \in Digits /\ text[p + 3] \in Digits
       \/ /\ text[p] = "2" /\ text[p + 1] = "0"
          /\ text[p + 2] \in {"0", "1", "2"} /\ text[p + 3] \in Digits

\* the pattern without its closing \b
YearPatternOpenEnd(text, p) ==
    /\ WordBoundary(text, p - 1)
    /\ YearDigitsAt(text, p)

\* line 34: r'\b(19[0-9]{2}|20[0-2][0-9])\b' matched at place p
year_pattern(text, p) ==
    /\ WordBoundary(text, p - 1)
    /\ YearDigitsAt(text, p)
    /\ WordBoundary(text, p + 3)

\* re.search: the leftmost place at or after p where the pattern matches, 0 if none
RECURSIVE re_search(_, _)
re_search(text, p) ==
    IF p > Len(text) THEN 0
    ELSE IF year_pattern(text, p) THEN p
    ELSE re_search(text, p + 1)

DigitValue(c) ==
    CASE c = "0" -> 0 [] c = "1" -> 1 [] c = "2" -> 2 [] c = "3" -> 3 [] c = "4" -> 4
      [] c = "5" -> 5 [] c = "6" -> 6 [] c = "7" -> 7 [] c = "8" -> 8 [] c = "9" -> 9

\* int(s) for a string of digits
RECURSIVE int(_)
int(s) ==
    IF Len(s) = 0 THEN 0
    ELSE 10 * int(SubSeq(s, 1, Len(s) - 1)) + DigitValue(s[Len(s)])

\* lines 116-131; the result is <<year>>, or None
_extract_year(text) ==
    LET p == re_search(text, 1)
    IN IF p = 0 THEN None ELSE << int(SubSeq(text, p, p + 3)) >>

\* the pieces that make the texts of the year extraction
YearPieces ==
    { <<"1","9","0","0">>,
      <<"1","9","9","9">>,
      <<"2","0","0","0">>,
      <<"2","0","2","9">>,
      <<"2","0","3","0">>,
      <<"1","8","9","9">>,
      <<"1","9">>,
      <<"3","8","4","7">>,
      <<"x">>,
      <<"_">>,
      <<" ">> }

RECURSIVE Concat(_)
Concat(pieces) ==
    IF Len(pieces) = 0 THEN <<>> ELSE pieces[1] \o Concat(Tail(pieces))

YearTexts == { Concat(ps) : ps \in SeqsUpTo(YearPieces, MaxPieces) }

\* _extract_year(text) on the text at hand
ExtractYear ==
    /\ song.state = "TEXT"
    /\ song' = [song EXCEPT !.state = "YEAR",
                            !.release_year = _extract_year(song.text)]
    /\ UNCHANGED <<now, cache, written, call, frame>>

----------------------------------------------------------------------------
(* The reporting step: filter_by_attribute and the filters of main *)

\* the columns categorize_songs gives every frame, and one it does not give
Columns == {"id", "genre", "mood", "release_year"}
Attributes == {"genre", "mood", "release_year", "tempo"}

RowValues == [genre : {"pop", "rock"}, mood : {"happy", "sad"},
              release_year : {None, <<1999>>}]

\* a frame of n rows; the id of a row is its place
Frames ==
    UNION { { [columns |-> Columns,
               rows |-> [i \in 1..n |->
                           [id |-> i, genre |-> v[i].genre, mood |-> v[i].mood,
                            release_year |-> v[i].release_year]]] :
              v \in [1..n -> RowValues] } : n \in 0..MaxRows }

FilterValues(attribute) ==
    CASE attribute = "genre" -> {"pop", "rock", "jazz"}
      [] attribute = "mood" -> {"happy", "sad"}
      [] attribute = "release_year" -> {1999, 2001}
      [] OTHER -> {"fast"}

\* df[attribute] == value for one row; a cell of release_year is <<year>> or
\* None (NaN), and NaN equals no value
CellEquals(row, attribute, value) ==
    IF attribute = "release_year" THEN row[attribute] = <<value>>
    ELSE row[attribute] = value

\* an attribute that is no column of the frame gives the empty frame
filter_drops_unknown(df, attribute, value) ==
    LET Keep(row) == attribute \in df.columns /\ CellEquals(row, attribute, value)
    IN [df EXCEPT !.rows = SelectSeq(df.rows, Keep)]

\* lines 151-167: df[df[attribute] == value], or df when attribute is no column
filter_by_attribute(df, attribute, value) ==
    IF attribute \in df.columns
    THEN LET Keep(row) == CellEquals(row, attribute, value)
         IN [df EXCEPT !.rows = SelectSeq(df.rows, Keep)]
    ELSE df

\* filter_by_attribute(df, attribute, value) on the frame at hand
FilterByAttribute ==
    /\ frame.state = "INPUT"
    /\ \E attribute \in Attributes :
       \E value \in FilterValues(attribute) :
          frame' = [state |-> "FILTERED", df |-> frame.df, attribute |-> attribute,
                    value |-> value,
                    out |-> filter_by_attribute(frame.df, attribute, value)]
    /\ UNCHANGED <<now, cache, written, call, song>>

\* main, lines 96-107: the filters given on the command line, in turn; a filter
\* that is given is <<value>>, one that is not given (None) is skipped
MainFilters ==
    /\ frame.state = "INPUT"
    /\ \E genre_filter \in {None, <<"pop">>, <<"jazz">>},
          mood_filter \in {None, <<"sad">>}, year_filter \in {None, <<1999>>} :
          LET df1 == IF genre_filter # None
                     THEN filter_by_attribute(frame.df, "genre", genre_filter[1])
                     ELSE frame.df
              df2 == IF mood_filter # None
                     THEN filter_by_attribute(df1, "mood", mood_filter[1])
                     ELSE df1
              df3 == IF year_filter # None
                     THEN filter_by_attribute(df2, "release_year", year_filter[1])
                     ELSE df2
          IN frame' = [state |-> "MAIN_FILTERED", df |-> frame.df,
                       genre_filter |-> genre_filter, mood_filter |-> mood_filter,
                       year_filter |-> year_filter, out |-> df3]
    /\ UNCHANGED <<now, cache, written, call, song>>

\* sort_by_attribute: the columns a report can be sorted by, and one that is none
SortAttributes == {"id", "genre", "mood", "release_year", "tempo"}

\* the natural ordering of the strings of a column, as their rank
Rank(value) ==
    CASE value = "happy" -> 1
      [] value = "pop" -> 2
      [] value = "rock" -> 3
      [] value = "sad" -> 4

\* a cell of release_year that is None is NaN in the frame
IsNaN(row, attribute) == attribute = "release_year" /\ row.release_year = None

SortKey(row, attribute) ==
    CASE attribute = "id" -> row.id
      [] attribute = "release_year" -> row.release_year[1]
      [] OTHER -> Rank(row[attribute])

\* row a may stand before row b in the sorted frame: NaN is last
\* (na_position='last') whatever the direction
MayPrecede(a, b, attribute, ascending) ==
    IF IsNaN(b, attribute) THEN TRUE
    ELSE IF IsNaN(a, attribute) THEN FALSE
    ELSE IF ascending THEN SortKey(a, attribute) <= SortKey(b, attribute)
         ELSE SortKey(a, attribute) >= SortKey(b, attribute)

Orderings(n) ==
    { p \in [1..n -> 1..n] : \A i, j \in 1..n : p[i] = p[j] => i = j }

\* df.sort_values(by=attribute, ascending=ascending): kind is left at its
\* default 'quicksort', which is not a stable algorithm, so rows that compare
\* equal come out in an order the library does not fix: every ordered
\* permutation is a possible result
sort_values(df, attribute, ascending) ==
    { [df EXCEPT !.rows = [i \in 1..Len(df.rows) |-> df.rows[p[i]]]] :
        p \in { q \in Orderings(Len(df.rows)) :
                  \A i \in 1..(Len(df.rows) - 1) :
                      MayPrecede(df.rows[q[i]], df.rows[q[i + 1]],
                                 attribute, ascending) } }

\* lines 145-149: the frames sort_by_attribute can return
sort_by_attribute(df, attribute, ascending) ==
    IF attribute \in df.columns
    THEN sort_values(df, attribute, ascending)
    ELSE {df}

\* sort_by_attribute(df, attribute, ascending) on the frame at hand
SortByAttribute ==
    /\ frame.state = "INPUT"
    /\ \E attribute \in SortAttributes, ascending \in BOOLEAN :
       \E out \in sort_by_attribute(frame.df, attribute, ascending) :
          frame' = [state |-> "SORTED", df |-> frame.df, attribute |-> attribute,
                    ascending |-> ascending, out |-> out]
    /\ UNCHANGED <<now, cache, written, call, song>>

-----
(* The environment *)

\* time passes between calls
Tick ==
    /\ now < MaxTime
    /\ now' = now + 1
    /\ UNCHANGED <<cache, written, call, song, frame>>

\* a cache file is damaged on disk (a crash during a write, a foreign file)
DamageFile ==
    \E k \in CacheKeys :
        /\ cache[k].kind = "entry"
        /\ cache' = [cache EXCEPT ![k] = Corrupt]
        /\ UNCHANGED <<now, written, call, song, frame>>


NoSong == [state |-> "NONE"]
NoFrame == [state |-> "NONE"]

Init ==
    /\ now = 0
    /\ cache = [k \in CacheKeys |-> Absent]
    /\ written = [k \in CacheKeys |-> <<>>]
    /\ call = NoCall
    /\ song = NoSong
    /\ frame = NoFrame

NextSearch == SearchMusic \/ Tick \/ DamageFile

SpecSearch == Init /\ [][NextSearch]_vars

\* one get_liked_videos call, its arguments and the playlist drawn at the start
InitLiked ==
    /\ now = 0
    /\ cache = [k \in CacheKeys |-> Absent]
    /\ written = [k \in CacheKeys |-> <<>>]
    /\ \E max_results \in -1..MaxRequested, source \in Sources(MaxSource),
          use_oauth \in BOOLEAN :
           call = LikedRequest(max_results, source, use_oauth)
    /\ song = NoSong
    /\ frame = NoFrame

\* search_music calls on one query
OneQuery == <<"a", " ", "b">>
SearchOneQuery ==
    \E max_results \in 0..MaxItems, cache_duration \in Durations :
        search_music(OneQuery, max_results, cache_duration)

NextOneQuery == SearchOneQuery \/ Tick \/ DamageFile

SpecOneQuery == Init /\ [][NextOneQuery]_vars

\* searches for one query, playlist listings and liked-videos calls on short
\* playlists, one after the other, within the hour
RequestLiked ==
    /\ ~Busy
    /\ \E max_results \in -1..(MaxItems + 1), source \in Sources(MaxSmallSource),
          use_oauth \in BOOLEAN :
           call' = LikedRequest(max_results, source, use_oauth)
    /\ UNCHANGED <<now, cache, written, song, frame>>

NextRetrieval ==
    SearchOneQuery \/ GetPlaylistItems \/ RequestLiked \/ get_liked_videos \/ LikedPage

SpecRetrieval == Init /\ [][NextRetrieval]_vars

NextLiked == get_liked_videos \/ LikedPage

SpecLiked == InitLiked /\ [][NextLiked]_vars

\* one call on a small playlist, run to its end: the process keeps executing,
\* so a step that can be taken is taken; the passes of the loop are followed
\* up to MaxPages
InitLikedSmall ==
    /\ now = 0
    /\ cache = [k \in CacheKeys |-> Absent]
    /\ written = [k \in CacheKeys |-> <<>>]
    /\ \E max_results \in -1..(MaxItems + 1), source \in Sources(MaxSmallSource),
          use_oauth \in BOOLEAN :
           call = LikedRequest(max_results, source, use_oauth)
    /\ song = NoSong
    /\ frame = NoFrame

NextLikedFair == get_liked_videos \/ (call.pages < MaxPages /\ LikedPage)

SpecLikedFair ==
    InitLikedSmall /\ [][NextLikedFair]_vars /\ WF_vars(NextLikedFair)

\* _detect_genre and _detect_mood on one text and one list of tags
InitDetect ==
    /\ now = 0
    /\ cache = [k \in CacheKeys |-> Absent]
    /\ written = [k \in CacheKeys |-> <<>>]
    /\ call = NoCall
    /\ \E text \in Texts, tags \in TagLists :
           song = [state |-> "INPUT", text |-> text, tags |-> tags,
                   genre |-> "", mood |-> ""]
    /\ frame = NoFrame

SpecDetect == InitDetect /\ [][DetectLabels]_vars

\* _extract_year on one text
InitYear ==
    /\ now = 0
    /\ cache = [k \in CacheKeys |-> Absent]
    /\ written = [k \in CacheKeys |-> <<>>]
    /\ call = NoCall
    /\ \E text \in YearTexts :
           song = [state |-> "TEXT", text |-> text, release_year |-> None]
    /\ frame = NoFrame

SpecYear == InitYear /\ [][ExtractYear]_vars

\* the reporting step on one frame
InitFilter ==
    /\ now = 0
    /\ cache = [k \in CacheKeys |-> Absent]
    /\ written = [k \in CacheKeys |-> <<>>]
    /\ call = NoCall
    /\ song = NoSong
    /\ \E df \in Frames : frame = [state |-> "INPUT", df |-> df]

NextFilter == FilterByAttribute \/ MainFilters

SpecFilter == InitFilter /\ [][NextFilter]_vars

\* a frame is given and sorted once
SpecSort == InitFilter /\ [][SortByAttribute]_vars

----------------------------------------------------------------------------
(* Several processes running search_music on one cache directory. The steps of
   a call that touch the file are taken one at a time; nothing locks the file.
   In this specification call holds one call per process. *)

MaxProcesses == 2
Processes == 1..MaxProcesses

\* two queries with two keys
SharedQueries == { OneQuery, <<"c">> }

\* the clock of the run, after an earlier run that may have left entries
SharedNow == 1
OldResults(query) == MusicItems(SearchItems(query, 1), {})

\* a process before line 108 of its call
Started(query, cache_duration) ==
    [pc |-> "exists", query |-> query, cache_duration |-> cache_duration,
     results |-> <<>>, outcome |-> "none", error |-> "none", from |-> "none",
     result |-> <<>>]

ProcessReturned(c, from, result) ==
    [c EXCEPT !.pc = "done", !.outcome = "returned", !.from = from,
              !.result = result]

ProcessRaised(c, error) ==
    [c EXCEPT !.pc = "done", !.outcome = "raised", !.error = error]

\* line 108: os.path.exists(cache_path)
PathExists(p) ==
    /\ call[p].pc = "exists"
    /\ call' = [call EXCEPT ![p].pc =
                    IF cache[cache_key(call[p].query)].kind = "absent"
                    THEN "fetch" ELSE "load"]
    /\ UNCHANGED <<now, cache, written, song, frame>>

\* lines 109-113: open the file, pickle.load, the test of the timestamp
LoadCache(p) ==
    /\ call[p].pc = "load"
    /\ LET entry == cache[cache_key(call[p].query)]
       IN call' = [call EXCEPT ![p] =
                     IF entry.kind = "corrupt"
                     THEN \* the file is empty or cut short: pickle.load raises
                          ProcessRaised(call[p], "EOFError")
                     ELSE IF CacheHit(entry, call[p].cache_duration)
                     THEN ProcessReturned(call[p], "cache", entry.results)
                     ELSE [call[p] EXCEPT !.pc = "fetch"]]
    /\ UNCHANGED <<now, cache, written, song, frame>>

\* lines 115-151 and 162-164: the search and the detail calls
Fetch(p) ==
    /\ call[p].pc = "fetch"
    /\ \/ call' = [call EXCEPT ![p] = ProcessReturned(call[p], "retriever", <<>>)]
       \/ \E n \in 0..MaxItems :
             call' = [call EXCEPT ![p] =
                        [call[p] EXCEPT !.pc = "open",
                            !.results = MusicItems(SearchItems(call[p].query, n), {})]]
    /\ UNCHANGED <<now, cache, written, song, frame>>

\* line 154: open(cache_path, 'wb') truncates the file
OpenForWrite(p) ==
    /\ call[p].pc = "open"
    /\ cache' = [cache EXCEPT ![cache_key(call[p].query)] = Corrupt]
    /\ call' = [call EXCEPT ![p].pc = "dump"]
    /\ UNCHANGED <<now, written, song, frame>>

\* lines 155-160: pickle.dump, the file is closed (its bytes reach the disk),
\* return results
DumpAndClose(p) ==
    /\ call[p].pc = "dump"
    /\ cache' = [cache EXCEPT ![cache_key(call[p].query)] =
                    Entry(now, call[p].results)]
    /\ written' = [written EXCEPT ![cache_key(call[p].query)] = call[p].results]
    /\ call' = [call EXCEPT ![p] =
                  ProcessReturned(call[p], "retriever", call[p].results)]
    /\ UNCHANGED <<now, song, frame>>

\* each process makes one call; an earlier run left an entry for some keys
InitShared ==
    /\ now = SharedNow
    /\ \E old \in SUBSET SharedQueries :
          /\ cache = [k \in CacheKeys |->
                        IF \E q \in old : cache_key(q) = k
                        THEN Entry(0, OldResults(CHOOSE q \in old : cache_key(q) = k))
                        ELSE Absent]
          /\ written = [k \in CacheKeys |->
                          IF \E q \in old : cache_key(q) = k
                          THEN OldResults(CHOOSE q \in old : cache_key(q) = k)
                          ELSE <<>>]
    /\ call \in [Processes -> { Started(q, d) : q \in SharedQueries, d \in Durations }]
    /\ song = NoSong
    /\ frame = NoFrame

NextShared ==
    \E p \in Processes :
        PathExists(p) \/ LoadCache(p) \/ Fetch(p) \/ OpenForWrite(p) \/ DumpAndClose(p)

SpecShared == InitShared /\ [][NextShared]_vars

----------------------------------------------------------------------------
(* categorize_songs: the loop over the songs, on a catalogue that holds every
   keyword of the two tables as a title, alone and with each tag list *)

\* str.lower(), on the capitals the catalogue uses
LowerChar(c) ==
    CASE c = "K" -> "k"
      [] c = "J" -> "j"
      [] c = "P" -> "p"
      [] c = "O" -> "o"
      [] OTHER -> c
Lower(s) == [i \in 1..Len(s) |-> LowerChar(s[i])]

\* the keywords of a table, category after category
RECURSIVE AllKeywords(_, _)
AllKeywords(table, c) ==
    IF c > Len(table) THEN <<>>
    ELSE table[c].keywords \o AllKeywords(table, c + 1)

\* song.get('title', ''): no title, each keyword, and two titles in capitals
Titles ==
    << <<>> >> \o AllKeywords(genre_keywords, 1) \o AllKeywords(mood_keywords, 1)
       \o << <<"K","-","P","O","P">>, <<"J","-","P","O","P">> >>

\* song.get('tags', []): no tag, or one keyword of the last two genres
TagChoices ==
    << <<>> >>
       \o [i \in 1..Len(genre_keywords[9].keywords) |->
              << genre_keywords[9].keywords[i] >>]
       \o [i \in 1..Len(genre_keywords[10].keywords) |->
              << genre_keywords[10].keywords[i] >>]
       \o << << <<"K","-","P","O","P">> >> >>

\* songs_data: every title with every tag list; the description is empty
Catalogue ==
    [k \in 1..(Len(Titles) * Len(TagChoices)) |->
        [title |-> Titles[((k - 1) \div Len(TagChoices)) + 1],
         description |-> <<>>,
         tags |-> TagChoices[((k - 1) % Len(TagChoices)) + 1]]]

\* lines 50-55: the lower-cased title, description and tags, joined by spaces
SongTags(s) == [i \in 1..Len(s.tags) |-> Lower(s.tags[i])]
SongText(s) ==
    Lower(s.title) \o <<" ">> \o Lower(s.description) \o <<" ">> \o Join(SongTags(s))

\* lines 48-74: one pass of the loop; of the frame being built the values of
\* the genre and mood columns and the years found are kept
CategorizeSong ==
    /\ song.state = "LOOP"
    /\ song.k <= Len(Catalogue)
    /\ LET s == Catalogue[song.k]
           text == SongText(s)
           tags == SongTags(s)
       IN song' = [song EXCEPT !.k = @ + 1,
                               !.genres = @ \cup {_detect_genre(text, tags)},
                               !.moods = @ \cup {_detect_mood(text, tags)},
                               !.years = @ \cup {_extract_year(text)}]
    /\ UNCHANGED <<now, cache, written, call, frame>>

\* lines 76-78: the frame is returned
ReturnFrame ==
    /\ song.state = "LOOP"
    /\ song.k > Len(Catalogue)
    /\ song' = [song EXCEPT !.state = "CATEGORIZED"]
    /\ UNCHANGED <<now, cache, written, call, frame>>

InitCategorize ==
    /\ now = 0
    /\ cache = [k \in CacheKeys |-> Absent]
    /\ written = [k \in CacheKeys |-> <<>>]
    /\ call = NoCall
    /\ song = [state |-> "LOOP", k |-> 1, genres |-> {}, moods |-> {}, years |-> {}]
    /\ frame = NoFrame

NextCategorize == CategorizeSong \/ ReturnFrame

SpecCategorize == InitCategorize /\ [][NextCategorize]_vars

----------------------------------------------------------------------------
(* Claims about search_music and its cache *)

\* C1: a search_music call returns the stored payload, without calling the
\* retriever, exactly when an entry exists for the query's key and
\* now - timestamp < cache_duration (strict); the payload of a hit is the one
\* the last successful fetch wrote for that key; an entry queried at
\* now >= timestamp + cache_duration is a miss and the retriever is called.
C1_HitExactlyWhenFresh ==
    [][\A cache_duration \in Durations :
         (/\ call'.op = "search_music"
          /\ search_music(call'.query, call'.max_results, cache_duration)) =>
           LET key == cache_key(call'.query)
               fresh == /\ cache[key].kind = "entry"
                        /\ now - cache[key].timestamp < cache_duration
           IN /\ (call'.from = "cache") <=> fresh
              /\ fresh => /\ call'.outcome = "returned"
                          /\ call'.result = written[key]
                          /\ call'.http = {}
              /\ (/\ cache[key].kind = "entry"
                  /\ now >= cache[key].timestamp + cache_duration)
                     => call'.from = "retriever"]_vars

\* a hit on an entry written an hour or more ago, with a payload in it
C1_Witness ==
    /\ call.op = "search_music"
    /\ call.from = "cache"
    /\ call.result # <<>>
    /\ cache[cache_key(call.query)].kind = "entry"
    /\ cache[cache_key(call.query)].timestamp < now

\* C2: a failure to read or to write the cache file never fails search_music.
C2_CacheFaultNeverFails ==
    call.op = "search_music" => call.outcome = "returned"

\* C8: a cache hit for query q only returns a payload that was fetched for q
\* (distinct queries have distinct keys).
C8_HitPayloadIsOfQuery ==
    (call.op = "search_music" /\ call.from = "cache") =>
        \A i \in 1..Len(call.result) : call.result[i].id[1] = call.query

\* C9: search_music(query, max_results) never returns more than max_results items.
C9_AtMostMaxResults ==
    (call.op = "search_music" /\ call.outcome = "returned") =>
        Len(call.result) <= call.max_results

----------------------------------------------------------------------------
(* Claims about the retrieval boundary and the liked-videos page loop *)

ListCalls == {"search", "playlist", "channels", "page"}

\* C3: when the retriever signals an HttpError during search_music,
\* get_playlist_items or get_liked_videos (on the first call, a later page or a
\* per-item detail call) the operation raises nothing to its caller, and when
\* the search or a listing call itself fails it returns the empty sequence.
C3_RetrieverErrorRaisesNothing ==
    /\ call.error # "HttpError"
    /\ (call.http \cap ListCalls # {}) =>
           (call.outcome = "returned" /\ call.result = <<>>)
    /\ (call.http # {} /\ call.state = "DONE") => call.outcome = "returned"

IsLiked == call.op = "get_liked_videos"

\* C4: in every pass of the liked-videos loop the page size requested is
\* min(50, max_results - accumulated count) and at least 1; the accumulated
\* count never exceeds max_results; after a page was received the loop is over
\* exactly when the count has reached max_results or the page carried no
\* continuation token; once it is over no page is requested.
C4_PageLoop ==
    [][IsLiked =>
        /\ (call.state = "FETCHING" /\ call' # call) =>
              /\ call'.pages = call.pages + 1
              /\ call'.page_size =
                    (IF call.max_results - Len(call.videos) < 50
                     THEN call.max_results - Len(call.videos) ELSE 50)
              /\ call'.page_size >= 1
              /\ Len(call'.videos) <= call.max_results
              /\ call'.how # "http_error" =>
                    ((call'.state = "DONE") <=>
                        (\/ Len(call'.videos) >= call.max_results
                         \/ call'.next_page_token = None))
        /\ call.state = "DONE" => call'.pages = call.pages]_vars

\* a third page, smaller than the page limit, that completes the request
C4_Witness ==
    /\ IsLiked
    /\ call.state = "DONE"
    /\ call.how = "completed"
    /\ call.pages = 3
    /\ call.page_size < PageLimit
    /\ Len(call.videos) = call.max_results

\* the places of the playlist that hold a video id, in order
Resolvable(source) ==
    LET HasVideoId(i) == Kind(source, i) # "deleted"
    IN SelectSeq([i \in 1..source.n |-> i], HasVideoId)

FirstOf(seq, k) == IF k <= 0 THEN <<>> ELSE SubSeq(seq, 1, Min(k, Len(seq)))

\* C5: with no fetch error get_liked_videos(max_results) returns exactly the
\* first min(max_results, R) items that have a video id, in source order, R
\* being the number of such items in the source.
C5_FirstResolvableItems ==
    (IsLiked /\ call.state = "DONE" /\ call.how = "completed") =>
        [i \in 1..Len(call.result) |-> call.result[i].id]
            = FirstOf(Resolvable(call.source), call.max_results)

\* more than a page of videos, gathered from a playlist with deleted items
C5_Witness ==
    /\ IsLiked
    /\ call.state = "DONE"
    /\ call.how = "completed"
    /\ call.source.pattern = 3
    /\ call.max_results > PageLimit
    /\ Len(call.result) = call.max_results

----------------------------------------------------------------------------
(* Claims about the classifier *)

\* keyword occurs in text as a substring
Occurs(keyword, text) ==
    \E i \in 1..(Len(text) - Len(keyword) + 1) :
        \A j \in 1..Len(keyword) : text[i + j - 1] = keyword[j]

\* the categories of a table that have a keyword in the text or among the tags
Matching(table, text, tags) ==
    { c \in 1..Len(table) :
        \E k \in 1..Len(table[c].keywords) :
            \/ Occurs(table[c].keywords[k], text)
            \/ \E j \in 1..Len(tags) : tags[j] = table[c].keywords[k] }

FirstMatch(table, default, text, tags) ==
    LET matching == Matching(table, text, tags)
    IN IF matching = {} THEN default
       ELSE table[CHOOSE c \in matching : \A d \in matching : c <= d].name

\* C6: _detect_genre returns the first category, in the genre table's order, that
\* has a keyword occurring as a substring of text or as an exact element of
\* tags, and 'unknown' if and only if no keyword of any category matches;
\* _detect_mood does the same over the mood table with default 'other'.
C6_FirstMatchingCategory ==
    song.state = "LABELLED" =>
        /\ song.genre = FirstMatch(genre_keywords, "unknown", song.text, song.tags)
        /\ song.mood = FirstMatch(mood_keywords, "other", song.text, song.tags)
        /\ (song.genre = "unknown")
               <=> (Matching(genre_keywords, song.text, song.tags) = {})
        /\ (song.mood = "other")
               <=> (Matching(mood_keywords, song.text, song.tags) = {})

\* 'pop' found inside "popular" although "rock" is in the text too, and a mood
\* found from a tag alone
C6_Witness ==
    /\ song.state = "LABELLED"
    /\ song.genre = "pop"
    /\ Cardinality(Matching(genre_keywords, song.text, song.tags)) >= 2
    /\ song.mood = "relaxing"
    /\ ~Occurs(<<"c","a","l","m">>, song.text)

\* the 4-digit tokens of text that lie in 1900..2029 and have no word character
\* next to them
YearTokens(text) ==
    { p \in 1..(Len(text) - 3) :
        /\ \A j \in 0..3 : text[p + j] \in Digits
        /\ int(SubSeq(text, p, p + 3)) \in 1900..2029
        /\ (p = 1 \/ ~IsWordChar(text[p - 1]))
        /\ (p + 3 = Len(text) \/ ~IsWordChar(text[p + 4])) }

\* C7: _extract_year returns the leftmost 4-digit token of text that lies in
\* 1900..1999 or 2000..2029 and is delimited by word boundaries on both sides,
\* as an integer, and None when there is no such token; the result is always in
\* 1900..2029.
C7_LeftmostYearToken ==
    song.state = "YEAR" =>
        LET tokens == YearTokens(song.text)
        IN /\ (song.release_year = None) <=> (tokens = {})
           /\ tokens # {} =>
                LET p == CHOOSE q \in tokens : \A r \in tokens : q <= r
                IN song.release_year =
                      << 1000 * DigitValue(song.text[p]) + 100 * DigitValue(song.text[p + 1])
                         + 10 * DigitValue(song.text[p + 2]) + DigitValue(song.text[p + 3]) >>
           /\ song.release_year # None => song.release_year[1] \in 1900..2029

\* two years in the text, the first one returned; the text starts with a year
\* that is out of range
C7_Witness ==
    /\ song.state = "YEAR"
    /\ Cardinality(YearTokens(song.text)) = 2
    /\ song.release_year = <<2029>>
    /\ SubSeq(song.text, 1, 4) = <<"2","0","2","9">>

----------------------------------------------------------------------------
(* Claims about the reporting step *)

\* rows are exactly the rows of df at the places in keep, in their order in df
ExactlyTheRows(rows, df, keep) ==
    /\ \A j \in 1..Len(rows) : rows[j].id \in keep /\ rows[j] = df.rows[rows[j].id]
    /\ \A j \in 1..(Len(rows) - 1) : rows[j].id < rows[j + 1].id
    /\ \A i \in keep : \E j \in 1..Len(rows) : rows[j].id = i

\* C10: filter_by_attribute returns exactly the records whose attribute equals
\* value, in their original order (none, without an error, when no record
\* matches); when attribute is no column it returns the input unchanged; the
\* filters of main in turn keep exactly the records that satisfy all of them.
C10_FilterKeepsExactlyMatches ==
    /\ frame.state = "FILTERED" =>
          IF frame.attribute \in frame.df.columns
          THEN /\ ExactlyTheRows(frame.out.rows, frame.df,
                     { i \in 1..Len(frame.df.rows) :
                         IF frame.attribute = "release_year"
                         THEN /\ frame.df.rows[i].release_year # None
                              /\ frame.df.rows[i].release_year[1] = frame.value
                         ELSE frame.df.rows[i][frame.attribute] = frame.value })
               /\ frame.out.columns = frame.df.columns
          ELSE frame.out = frame.df
    /\ frame.state = "MAIN_FILTERED" =>
          ExactlyTheRows(frame.out.rows, frame.df,
              { i \in 1..Len(frame.df.rows) :
                  /\ frame.genre_filter # None =>
                        frame.df.rows[i].genre = frame.genre_filter[1]
                  /\ frame.mood_filter # None =>
                        frame.df.rows[i].mood = frame.mood_filter[1]
                  /\ frame.year_filter # None =>
                        frame.df.rows[i].release_year = frame.year_filter })

\* a filter that kept the first and the third of three rows
C10_Witness ==
    /\ frame.state = "FILTERED"
    /\ Len(frame.df.rows) = 3
    /\ Len(frame.out.rows) = 2
    /\ frame.out.rows[1].id = 1
    /\ frame.out.rows[2].id = 3

----------------------------------------------------------------------------
(* Claims about sort_by_attribute *)

\* rows that compare equal on the attribute (two NaN cells included)
SameKey(a, b, attribute) ==
    IF IsNaN(a, attribute) \/ IsNaN(b, attribute)
    THEN IsNaN(a, attribute) /\ IsNaN(b, attribute)
    ELSE SortKey(a, attribute) = SortKey(b, attribute)

\* C11: sort_by_attribute returns a permutation of the rows of df, ordered by
\* the attribute in the direction asked for, in which rows with equal values
\* keep their input order (a stable sort); when the attribute is not a column
\* the input is returned unchanged.
C11_StableSortedPermutation ==
    frame.state = "SORTED" =>
        IF frame.attribute \in frame.df.columns
        THEN LET rows == frame.out.rows
                 n == Len(frame.df.rows)
             IN /\ Len(rows) = n
                /\ { rows[i] : i \in 1..n } = { frame.df.rows[i] : i \in 1..n }
                /\ \A i \in 1..(n - 1) :
                      MayPrecede(rows[i], rows[i + 1], frame.attribute,
                                 frame.ascending)
                /\ \A i, j \in 1..n :
                      (i < j /\ SameKey(rows[i], rows[j], frame.attribute))
                          => rows[i].id < rows[j].id
        ELSE frame.out = frame.df

----------------------------------------------------------------------------
(* Claims about what search_music does to the cache *)

\* C12: a search_music call creates or overwrites a cache entry only when it
\* missed the cache and its search fetch completed without error, and the entry
\* then holds the current time and the fetched results, whatever was there
\* before; a hit leaves the cache unchanged and so does a search whose fetch
\* fails (an expired entry stays in place, a failed fetch is never cached).
C12_OnlySuccessfulMissWrites ==
    [][\A cache_duration \in Durations :
         (/\ call'.op = "search_music"
          /\ search_music(call'.query, call'.max_results, cache_duration)) =>
           LET key == cache_key(call'.query)
           IN /\ cache' # cache =>
                    /\ cache[key].kind # "corrupt"
                    /\ ~CacheHit(cache[key], cache_duration)
                    /\ "search" \notin call'.http
                    /\ cache' = [cache EXCEPT ![key] = Entry(now, call'.result)]
              /\ call'.from = "cache" => cache' = cache
              /\ "search" \in call'.http => cache' = cache]_vars

----------------------------------------------------------------------------
(* Claims about processes sharing the cache directory *)

\* the processes whose call uses key k
Using(k) == { p \in Processes : cache_key(call[p].query) = k }

\* C13: with several processes running search_music on one cache directory,
\* without locks: a step of a process leaves the entries of the other keys as
\* they are; no process fails (a reader never gets a fault from a file another
\* process is writing); and once the processes using a key are done, the file
\* holds the entry written last.
C13_SharedCacheNeverFaults ==
    /\ \A p \in Processes : call[p].outcome # "raised"
    /\ \A k \in CacheKeys :
          (\A p \in Using(k) : call[p].pc = "done") =>
              \/ cache[k] = Absent
              \/ cache[k].kind = "entry" /\ cache[k].results = written[k]
    /\ \A k \in CacheKeys :
          Using(k) = {} =>
              cache[k] \in { Absent, Entry(0, written[k]) }

----------------------------------------------------------------------------
(* Claims about the end of the liked-videos fetch *)

\* C14: every get_liked_videos call eventually reaches DONE, for every
\* max_results (none or a negative one included, for which no page is
\* requested) and every source, one whose items all lack a video id included;
\* it ends by returning the accumulated sequence or by a fetch error.
C14_EventuallyDone ==
    /\ <>(IsLiked /\ call.state = "DONE")
    /\ [](call.max_results <= 0 => call.pages = 0)
    /\ [](call.state = "DONE" =>
            \/ call.how = "completed" /\ call.result = call.videos
            \/ call.how \in {"http_error", "oauth_required", "no_channel"}
                 /\ call.result = <<>>)

\* the end of a call on a playlist of deleted videos only, after several pages
C14_Witness ==
    /\ IsLiked
    /\ call.state = "DONE"
    /\ call.how = "completed"
    /\ call.max_results > 0
    /\ Patterns[call.source.pattern] = <<"deleted">>
    /\ call.pages > 1
    /\ call.pages = call.source.n
    /\ call.result = <<>>

----------------------------------------------------------------------------
(* Claims about the category tables *)

Names(table) == { table[c].name : c \in 1..Len(table) }

\* C15: every category of the genre table and of the mood table is attainable:
\* for each one (k-pop and j-pop included) some song, with its text and tags
\* built as categorize_songs builds them, is given that category. On a
\* catalogue that holds every keyword as a title and as a tag, every category
\* name is among the labels given.
C15_EveryCategoryAttained ==
    song.state = "CATEGORIZED" =>
        /\ Names(genre_keywords) \subseteq song.genres
        /\ Names(mood_keywords) \subseteq song.moods

====
